---- MODULE Spec2Model ----
(***************************************************************************)
(* Model of src/main.py: the relevance scorer, the three source adapters   *)
(* (Eventbrite scrape, Reddit API, Google Trends) and the aggregator main. *)
(*                                                                         *)
(* Python strings are sequences of one-character strings, so that lower(), *)
(* split() and the substring test `in` are computed, not assumed.          *)
(* Python values that main tests with isinstance / `is None` carry a type  *)
(* tag: a dict is a record with type = "dict", None is PyNone, a nullable  *)
(* int is PyInt(n).                                                        *)
(***************************************************************************)
EXTENDS Integers, Sequences, FiniteSets, TLC

VARIABLES
    title,      \* calculate_relevance_score: argument title
    keyword,    \* the search keyword (args.keyword / argument keyword)
    score,      \* calculate_relevance_score: returned value (PyNone before the call)
    eb_pc,      \* fetch_eventbrite_scrape: position ("idle" when not running)
    eb_i,       \* fetch_eventbrite_scrape: i, the number of the URL being tried
    eb_j,       \* fetch_eventbrite_scrape: j, the number of the selector being tried
    eb_log,     \* the requests.get calls made so far, each with how its attempt ended
    eb_ret,     \* fetch_eventbrite_scrape: returned value (PyNone before the return)
    start_date, \* the start of the date range, a day number (PyNone before parsing)
    end_date,   \* the end of the date range, a day number
    start_ts,   \* int(start.timestamp())
    end_ts,     \* int(end.timestamp())
    rd_pc,      \* fetch_reddit_mentions: position ("idle" when not running)
    rd_in,      \* what fetch_reddit_mentions met: credentials, praw, the API's answer
    rd_ret,     \* fetch_reddit_mentions: returned value
    gt_pc,      \* fetch_google_trends_score: position ("idle" when not running)
    gt_in,      \* what fetch_google_trends_score met: TrendReq, the query's answer
    gt_ret,     \* fetch_google_trends_score: returned value
    pc,         \* main: position ("idle" when main is not running)
    date_arg,   \* args.date, the text given as --date
    calls,      \* the source fetches main has called, in call order
    eb_count,   \* main: eb_count
    eb_data,    \* main: eb_data
    reddit_count, \* main: reddit_count
    reddit_data,  \* main: reddit_data
    gt_data,    \* main: gt_data
    out,        \* main: the report dict (PyNone before it is built)
    files       \* what has been written to output_path, one entry per write

scoreVars == <<title, score>>
ebVars == <<eb_pc, eb_i, eb_j, eb_log, eb_ret>>
dateVars == <<start_date, end_date, start_ts, end_ts>>
rdVars == <<rd_pc, rd_in, rd_ret>>
gtVars == <<gt_pc, gt_in, gt_ret>>
mainVars == <<pc, date_arg, calls, eb_count, eb_data, reddit_count, reddit_data,
              gt_data, out, files>>

----------------------------------------------------------------------------
(* Python values *)

PyNone == [type |-> "NoneType"]

PyInt(n) == [type |-> "int", v |-> n]

IsDict(x) == x.type = "dict"

Min(a, b) == IF a < b THEN a ELSE b

Max(a, b) == IF a > b THEN a ELSE b

----------------------------------------------------------------------------
(* Strings *)

UpperLetters ==
    <<"A","B","C","D","E","F","G","H","I","J","K","L","M",
      "N","O","P","Q","R","S","T","U","V","W","X","Y","Z">>

LowerLetters ==
    <<"a","b","c","d","e","f","g","h","i","j","k","l","m",
      "n","o","p","q","r","s","t","u","v","w","x","y","z">>

\* str.lower() on one character
LowerChar(c) ==
    IF \E i \in 1..Len(UpperLetters) : UpperLetters[i] = c
    THEN LowerLetters[CHOOSE i \in 1..Len(UpperLetters) : UpperLetters[i] = c]
    ELSE c

\* str.lower()
Lower(s) == [i \in 1..Len(s) |-> LowerChar(s[i])]

\* the characters str.split() with no argument treats as separators
IsSpace(c) == c \in {" ", "\t", "\n"}

\* Python `sub in s` for strings: "" is in every string
In(sub, s) ==
    \E i \in 0..(Len(s) - Len(sub)) : SubSeq(s, i + 1, i + Len(sub)) = sub

RECURSIVE SplitFrom(_, _, _)
SplitFrom(s, i, cur) ==
    IF i > Len(s)
    THEN (IF cur = <<>> THEN <<>> ELSE <<cur>>)
    ELSE IF IsSpace(s[i])
         THEN (IF cur = <<>> THEN SplitFrom(s, i + 1, <<>>)
                             ELSE <<cur>> \o SplitFrom(s, i + 1, <<>>))
         ELSE SplitFrom(s, i + 1, Append(cur, s[i]))

\* str.split(): the maximal runs of non-whitespace characters, in order
Split(s) == SplitFrom(s, 1, <<>>)

----------------------------------------------------------------------------
(* calculate_relevance_score *)

event_terms ==
    << <<"f","e","s","t","i","v","a","l">>,
       <<"e","v","e","n","t">>,
       <<"c","e","l","e","b","r","a","t","i","o","n">>,
       <<"p","a","r","t","y">>,
       <<"c","o","n","c","e","r","t">>,
       <<"s","h","o","w">>,
       <<"t","o","u","r">>,
       <<"l","i","v","e">>,
       <<"p","e","r","f","o","r","m","a","n","c","e">> >>

ExactMatchPoints == 100
WordMatchPoints == 35
EventTermPoints == 20
MaxScore == 100

\* "if keyword_lower in title_lower: score += 100"
ExactScore(title_lower, keyword_lower) ==
    IF In(keyword_lower, title_lower) THEN ExactMatchPoints ELSE 0

\* as WordScore, but a word that occurs twice in the keyword counts once
WordScore_distinct(title_lower, words) ==
    WordMatchPoints
    * Cardinality({w \in {words[n] : n \in 1..Len(words)} : In(w, title_lower)})

\* "for word in keyword_lower.split(): if word in title_lower: score += 35"
RECURSIVE WordScore(_, _)
WordScore(title_lower, words) ==
    IF words = <<>> THEN 0
    ELSE (IF In(Head(words), title_lower) THEN WordMatchPoints ELSE 0)
         + WordScore(title_lower, Tail(words))

\* "if any(term in title_lower for term in event_terms): score += 20"
EventScore(title_lower) ==
    IF \E k \in 1..Len(event_terms) : In(event_terms[k], title_lower)
    THEN EventTermPoints ELSE 0

\* the value of `score` just before the return statement
RawScore(t, kw) ==
    LET title_lower == Lower(t)
        keyword_lower == Lower(kw)
    IN  ExactScore(title_lower, keyword_lower)
        + WordScore(title_lower, Split(keyword_lower))
        + EventScore(title_lower)

\* as calculate_relevance_score, without the clamp
calculate_relevance_score_unclamped(t, kw) == RawScore(t, kw)

\* "return max(0, min(score, 100))"
calculate_relevance_score(t, kw) == Max(0, Min(RawScore(t, kw), MaxScore))

----------------------------------------------------------------------------
(* Inputs of the scorer: titles and keywords made of a few words *)

MaxTitleWords == 2
MaxKeywordWords == 3

WordA == <<"a">>
WordB == <<"B">>
WordLive == <<"L","i","v","e">>

Vocabulary == {WordA, WordB, WordLive}

RECURSIVE JoinWords(_)
JoinWords(ws) ==
    IF ws = <<>> THEN <<>>
    ELSE IF Len(ws) = 1 THEN Head(ws)
    ELSE Head(ws) \o <<" ">> \o JoinWords(Tail(ws))

WordLists(n) == UNION {[1..k -> Vocabulary] : k \in 0..n}

ScoreTitles == {JoinWords(ws) : ws \in WordLists(MaxTitleWords)}

ScoreKeywords ==
    {JoinWords(ws) : ws \in WordLists(MaxKeywordWords)}
    \cup { <<" ">>, <<"a"," "," ","B">>, <<" ","a","\t">> }

----------------------------------------------------------------------------
(* fetch_eventbrite_scrape *)

relevance_threshold == 90
NumUrls == 2
NumSelectors == 10
TitleLimit == 200

\* s[:n]
Truncate(s, n) == SubSeq(s, 1, Min(Len(s), n))

Digits == <<"0","1","2","3","4","5","6","7","8","9">>

\* str(n) for n >= 0
RECURSIVE Decimal(_)
Decimal(n) ==
    IF n < 10 THEN <<Digits[n + 1]>>
    ELSE Decimal(n \div 10) \o <<Digits[(n % 10) + 1]>>

\* A card (or link) of the page as the extraction sees it: ok = FALSE when
\* extracting its fields raises, which the inner try/except skips.
Card(t) == [ok |-> TRUE, title |-> t]
BadCard == [ok |-> FALSE, title |-> <<>>]

\* the event_data dict built from one card; the score is computed on the
\* whole title, the stored title is cut to 200 characters
EventData(t, kw, src) ==
    [title |-> Truncate(t, TitleLimit),
     relevance_score |-> calculate_relevance_score(t, kw),
     source |-> src]

\* "for k, card in enumerate(cards): try: ... events.append(event_data)
\*  except Exception: continue"
RECURSIVE CardEvents(_, _)
CardEvents(cards, kw) ==
    IF cards = <<>> THEN <<>>
    ELSE (IF Head(cards).ok
          THEN <<EventData(Head(cards).title, kw, "eventbrite_scrape")>>
          ELSE <<>>)
         \o CardEvents(Tail(cards), kw)

\* the fallback loop over event links; k counts from 0 and an empty link
\* text is replaced by "Event {k+1}"
RECURSIVE LinkEvents(_, _, _)
LinkEvents(links, kw, k) ==
    IF links = <<>> THEN <<>>
    ELSE (IF Head(links).ok
          THEN <<EventData(IF Head(links).title = <<>>
                           THEN <<"E","v","e","n","t"," ">> \o Decimal(k + 1)
                           ELSE Head(links).title,
                           kw, "eventbrite_links")>>
          ELSE <<>>)
         \o LinkEvents(Tail(links), kw, k + 1)

\* as HighRelevance, without the filter
AllEvents(events) == events

\* "[e for e in events if e['relevance_score'] >= 90]"
HighRelevance(events) ==
    SelectSeq(events, LAMBDA e : e.relevance_score >= relevance_threshold)

\* the dict returned when selector j matched
SelectorResult(cards, kw, j) ==
    LET events == CardEvents(cards, kw)
        high_relevance_events == HighRelevance(events)
    IN  [type |-> "dict",
         count |-> Len(high_relevance_events),
         events |-> high_relevance_events,
         source |-> "eventbrite_scrape",
         selector_used |-> j,
         total_events_found |-> Len(events),
         relevance_threshold |-> relevance_threshold]

\* the dict returned by the event-link fallback
LinksResult(links, kw) ==
    LET events == LinkEvents(links, kw, 0)
        high_relevance_events == HighRelevance(events)
    IN  [type |-> "dict",
         count |-> Len(high_relevance_events),
         events |-> high_relevance_events,
         source |-> "eventbrite_links",
         total_events_found |-> Len(events),
         relevance_threshold |-> relevance_threshold]

\* the dict returned after the loop over the URLs
NoEventsResult ==
    [type |-> "dict",
     count |-> 0,
     events |-> <<>>,
     source |-> "eventbrite_scrape",
     error |-> "No events found"]

\* the attempt on the current URL is over, with outcome o
EndAttempt(log, o) == [log EXCEPT ![Len(log)].outcome = o]

\* as EbNextUrl, but a failed attempt ends the loop instead of moving on
EbNextUrl_giveup == eb_pc' = "exhausted" /\ eb_i' = eb_i

\* "continue" / falling off the loop body: the next URL, or the end of the loop
EbNextUrl ==
    IF eb_i < NumUrls
    THEN eb_pc' = "request" /\ eb_i' = eb_i + 1
    ELSE eb_pc' = "exhausted" /\ eb_i' = eb_i

\* requests.get(url) and what follows up to the parsed page: a 404 moves on,
\* an exception (the request, raise_for_status, the parser) is caught by the
\* outer except and moves on, a page goes to the selectors
EbRequest ==
    /\ eb_pc = "request"
    /\ \E r \in {"404", "exception", "page"} :
         IF r = "page"
         THEN /\ eb_log' = Append(eb_log, [url |-> eb_i, outcome |-> "pending"])
              /\ eb_pc' = "select"
              /\ eb_j' = 1
              /\ eb_i' = eb_i
         ELSE /\ eb_log' = Append(eb_log, [url |-> eb_i, outcome |-> r])
              /\ EbNextUrl
              /\ eb_j' = eb_j
    /\ eb_ret' = eb_ret

\* soup.select(selectors[j]): no match tries the next selector (the link
\* fallback after the last), a match returns
EbSelect(CardLists) ==
    /\ eb_pc = "select"
    /\ \E cards \in CardLists :
         IF cards = <<>>
         THEN /\ IF eb_j < NumSelectors
                 THEN eb_pc' = "select" /\ eb_j' = eb_j + 1
                 ELSE eb_pc' = "links" /\ eb_j' = eb_j
              /\ UNCHANGED <<eb_i, eb_log, eb_ret>>
         ELSE /\ eb_ret' = SelectorResult(cards, keyword, eb_j)
              /\ eb_log' = EndAttempt(eb_log, "selector")
              /\ eb_pc' = "done"
              /\ UNCHANGED <<eb_i, eb_j>>

\* an exception while the page is processed, outside the per-card try (the
\* selector engine, the link scan): caught by the outer except, next URL
EbPageError ==
    /\ eb_pc \in {"select", "links"}
    /\ eb_log' = EndAttempt(eb_log, "exception")
    /\ EbNextUrl
    /\ UNCHANGED <<eb_j, eb_ret>>

\* soup.find_all("a", href with "/e/"): links return, none moves on
EbLinks(LinkLists) ==
    /\ eb_pc = "links"
    /\ \E links \in LinkLists :
         IF links = <<>>
         THEN /\ eb_log' = EndAttempt(eb_log, "nothing")
              /\ EbNextUrl
              /\ UNCHANGED <<eb_j, eb_ret>>
         ELSE /\ eb_ret' = LinksResult(links, keyword)
              /\ eb_log' = EndAttempt(eb_log, "links")
              /\ eb_pc' = "done"
              /\ UNCHANGED <<eb_i, eb_j>>

\* after the loop: "No events found with any URL or method"
EbNoEvents ==
    /\ eb_pc = "exhausted"
    /\ eb_ret' = NoEventsResult
    /\ eb_pc' = "done"
    /\ UNCHANGED <<eb_i, eb_j, eb_log>>

----------------------------------------------------------------------------
(* fetch_reddit_mentions *)

SubmissionsShown == 10

\* "start_ts <= submission.created_utc <= end_ts"
InDateRange(sub, s, e) == s <= sub.created_utc /\ sub.created_utc <= e

\* one entry of detailed_posts
DetailedPost(sub, kw, s, e) ==
    [title |-> sub.title,
     created_utc |-> sub.created_utc,
     relevance_score |-> calculate_relevance_score(sub.title, kw),
     in_date_range |-> InDateRange(sub, s, e)]

\* the final return: no API available (also reached after the except branch,
\* which only logs)
NoApiResult ==
    [type |-> "dict", count |-> 0, posts |-> <<>>, in_date_range |-> 0,
     source |-> "no_api"]

\* "if filtered_count == 0: return {...}"
EmptyRangeResult(detailed_posts) ==
    [type |-> "dict", count |-> 0, posts |-> <<>>, in_date_range |-> 0,
     source |-> "reddit_api",
     total_posts_found |-> Len(detailed_posts),
     relevance_threshold |-> relevance_threshold]

\* the return with posts in the date range
InRangeResult(detailed_posts) ==
    LET posts_in_range == SelectSeq(detailed_posts, LAMBDA p : p.in_date_range)
        high_relevance_posts_in_range == HighRelevance(posts_in_range)
    IN  [type |-> "dict",
         count |-> Len(high_relevance_posts_in_range),
         posts |-> high_relevance_posts_in_range,
         in_date_range |-> Len(high_relevance_posts_in_range),
         source |-> "reddit_api",
         total_posts_found |-> Len(detailed_posts),
         posts_in_date_range |-> Len(posts_in_range),
         relevance_threshold |-> relevance_threshold]

\* as RedditApiResult, but the relevance filter is applied to the first
\* submissions whatever their date
RedditApiResult_substituting(submissions, kw, s, e) ==
    LET posts_to_return == SubSeq(submissions, 1, Min(Len(submissions), SubmissionsShown))
        detailed_posts ==
            [n \in 1..Len(posts_to_return) |-> DetailedPost(posts_to_return[n], kw, s, e)]
        high == HighRelevance(detailed_posts)
    IN  [type |-> "dict", count |-> Len(high), posts |-> high,
         in_date_range |-> Len(high), source |-> "reddit_api",
         total_posts_found |-> Len(detailed_posts),
         relevance_threshold |-> relevance_threshold]

\* as RedditApiResult, but detailed_posts holds every submission fetched
RedditApiResult_allposts(submissions, kw, s, e) ==
    LET detailed_posts ==
            [n \in 1..Len(submissions) |-> DetailedPost(submissions[n], kw, s, e)]
    IN  IF \A n \in 1..Len(submissions) : ~InDateRange(submissions[n], s, e)
        THEN EmptyRangeResult(detailed_posts)
        ELSE InRangeResult(detailed_posts)

\* the try block from the date filter on, for the submissions the search gave
RedditApiResult(submissions, kw, s, e) ==
    LET in_range_submissions ==
            SelectSeq(submissions, LAMBDA sub : InDateRange(sub, s, e))
        filtered_count == Len(in_range_submissions)
        posts_to_return ==
            IF in_range_submissions # <<>>
            THEN in_range_submissions
            ELSE SubSeq(submissions, 1, Min(Len(submissions), SubmissionsShown))
        detailed_posts ==
            [n \in 1..Len(posts_to_return) |-> DetailedPost(posts_to_return[n], kw, s, e)]
    IN  IF filtered_count = 0
        THEN EmptyRangeResult(detailed_posts)
        ELSE InRangeResult(detailed_posts)

\* "if reddit_client_id and reddit_client_secret and praw"
RedditApiUsable(env) == env.client_id /\ env.client_secret /\ env.praw

\* env.api: what praw does inside the try block: kind "ok" with the
\* submissions of the search, or an exception at connect, search or while a
\* submission is processed
fetch_reddit_mentions(kw, s, e, env) ==
    IF RedditApiUsable(env)
    THEN IF env.api.kind = "ok"
         THEN RedditApiResult(env.api.submissions, kw, s, e)
         ELSE NoApiResult
    ELSE NoApiResult

\* one call of fetch_reddit_mentions
FetchReddit(Envs) ==
    /\ rd_pc = "start"
    /\ \E env \in Envs :
         /\ rd_in' = env
         /\ rd_ret' = fetch_reddit_mentions(keyword, start_ts, end_ts, env)
    /\ rd_pc' = "done"

----------------------------------------------------------------------------
(* fetch_google_trends_score *)

RECURSIVE SeqSum(_)
SeqSum(q) == IF q = <<>> THEN 0 ELSE Head(q) + SeqSum(Tail(q))

RECURSIVE SeqMax(_)
SeqMax(q) == IF Len(q) = 1 THEN Head(q) ELSE Max(Head(q), SeqMax(Tail(q)))

RECURSIVE SeqMin(_)
SeqMin(q) == IF Len(q) = 1 THEN Head(q) ELSE Min(Head(q), SeqMin(Tail(q)))

TrendDirection(daily_data) ==
    IF Len(daily_data) >= 2
    THEN IF daily_data[Len(daily_data)].score = daily_data[1].score THEN "stable"
         ELSE IF daily_data[Len(daily_data)].score > daily_data[1].score
              THEN "increasing" ELSE "decreasing"
    ELSE "unknown"

\* the dict returned for a non-empty series (a sequence of scores, one a day)
TrendsResult(series, sd, ed) ==
    LET daily_data == [n \in 1..Len(series) |-> [date |-> sd + n - 1, score |-> series[n]]]
    IN  [type |-> "dict",
         max_score |-> PyInt(SeqMax(series)),
         avg_score |-> SeqSum(series) \div Len(series),
         min_score |-> SeqMin(series),
         trend_direction |-> TrendDirection(daily_data),
         total_days |-> Len(daily_data),
         timeframe |-> <<sd, ed>>,
         daily_data |-> daily_data]

\* env.TrendReq: pytrends was imported; env.query: what the query does inside
\* the try block: kind "ok" with the series, or an exception
fetch_google_trends_score(kw, sd, ed, env) ==
    IF ~env.TrendReq THEN PyNone
    ELSE IF env.query.kind # "ok" THEN PyNone
    ELSE IF env.query.series = <<>> THEN PyNone
    ELSE TrendsResult(env.query.series, sd, ed)

\* one call of fetch_google_trends_score
FetchTrends(Envs) ==
    /\ gt_pc = "start"
    /\ \E env \in Envs :
         /\ gt_in' = env
         /\ gt_ret' = fetch_google_trends_score(keyword, start_date, end_date, env)
    /\ gt_pc' = "done"

SecondsPerDay == 86400

\* int(d.timestamp()) for the day d at midnight (the local zone taken as UTC)
Timestamp(d) == d * SecondsPerDay

----------------------------------------------------------------------------
(* Inputs of the adapters *)

MaxCards == 2

KeywordAB == <<"a"," ","B">>

AdapterKeywords == {KeywordAB, WordLive}

\* scores for keyword "a B": 100+70, 70+20, 35, 35+20; for "Live": 0 or 100+35+20
AdapterTitles ==
    { <<"a"," ","b">>, <<"B"," ","a"," ","L","i","v","e">>, <<"a">>,
      <<"b"," ","l","i","v","e">> }

SeqsUpTo(S, n) == UNION {[1..k -> S] : k \in 0..n}

EbCardLists == SeqsUpTo({Card(t) : t \in AdapterTitles} \cup {BadCard}, MaxCards)

EbLinkLists ==
    SeqsUpTo({Card(t) : t \in AdapterTitles \cup {<<>>}} \cup {BadCard}, MaxCards)

MaxSubmissions == 2
MaxSeries == 2

\* creation times around both ends of the inclusive range [s, e]
Submissions(s, e) ==
    {[title |-> t, created_utc |-> c] :
        t \in AdapterTitles, c \in {s - 1, s, e, e + 1}}

MaxExtraSubmissions == 1

\* searches that return about SubmissionsShown submissions or more: copies of
\* one submission created after the range, with or without a last one
\* created in it
LongSearches(s, e) ==
    {[n \in 1..k |-> [title |-> t, created_utc |-> e + 1]]
     \o (IF last THEN <<[title |-> t, created_utc |-> s]>> ELSE <<>>) :
        t \in AdapterTitles,
        k \in (SubmissionsShown - 1)..(SubmissionsShown + MaxExtraSubmissions),
        last \in BOOLEAN}

ApiNotCalled == [kind |-> "not_called", submissions |-> <<>>]

ApiErrors ==
    {[kind |-> k, submissions |-> <<>>] :
        k \in {"connect_error", "search_error", "process_error"}}

RedditEnvs(s, e) ==
    {[client_id |-> c[1], client_secret |-> c[2], praw |-> c[3], api |-> ApiNotCalled] :
        c \in (BOOLEAN \X BOOLEAN \X BOOLEAN) \ {<<TRUE, TRUE, TRUE>>}}
    \cup
    {[client_id |-> TRUE, client_secret |-> TRUE, praw |-> TRUE, api |-> a] :
        a \in ApiErrors \cup
              {[kind |-> "ok", submissions |-> subs] :
                  subs \in SeqsUpTo(Submissions(s, e), MaxSubmissions)
                           \cup LongSearches(s, e)}}

TrendScores == {0, 50, 100}

QueryNotCalled == [kind |-> "not_called", series |-> <<>>]

TrendsEnvs ==
    {[TrendReq |-> FALSE, query |-> QueryNotCalled]}
    \cup
    {[TrendReq |-> TRUE, query |-> q] :
        q \in {[kind |-> "error", series |-> <<>>]} \cup
              {[kind |-> "ok", series |-> ser] : ser \in SeqsUpTo(TrendScores, MaxSeries)}}

\* the date ranges of the adapter calls: a single day, and a longer range
DateRanges == {<<1, 2>>, <<3, 6>>}

DatesUnset ==
    /\ start_date = PyNone
    /\ end_date = PyNone
    /\ start_ts = PyNone
    /\ end_ts = PyNone

DatesSet ==
    \E r \in DateRanges :
        /\ start_date = r[1]
        /\ end_date = r[2]
        /\ start_ts = Timestamp(r[1])
        /\ end_ts = Timestamp(r[2])

ScoreIdle == title = <<>> /\ score = PyNone

RdIdle == rd_pc = "idle" /\ rd_in = PyNone /\ rd_ret = PyNone

RdEntered == rd_pc = "start" /\ rd_in = PyNone /\ rd_ret = PyNone

GtIdle == gt_pc = "idle" /\ gt_in = PyNone /\ gt_ret = PyNone

GtEntered == gt_pc = "start" /\ gt_in = PyNone /\ gt_ret = PyNone

EbIdle ==
    /\ eb_pc = "idle"
    /\ eb_i = 0
    /\ eb_j = 0
    /\ eb_log = <<>>
    /\ eb_ret = PyNone

\* fetch_eventbrite_scrape entered: the first URL is about to be requested
EbEntered ==
    /\ eb_pc = "request"
    /\ eb_i = 1
    /\ eb_j = 0
    /\ eb_log = <<>>
    /\ eb_ret = PyNone

MainIdle ==
    /\ pc = "idle"
    /\ date_arg = <<>>
    /\ calls = <<>>
    /\ eb_count = PyNone
    /\ eb_data = PyNone
    /\ reddit_count = PyNone
    /\ reddit_data = PyNone
    /\ gt_data = PyNone
    /\ out = PyNone
    /\ files = <<>>

InitScore ==
    /\ title \in ScoreTitles
    /\ keyword \in ScoreKeywords
    /\ score = PyNone
    /\ EbIdle
    /\ RdIdle
    /\ GtIdle
    /\ DatesUnset
    /\ MainIdle

\* one call calculate_relevance_score(title, keyword)
Score ==
    /\ score = PyNone
    /\ score' = PyInt(calculate_relevance_score(title, keyword))
    /\ UNCHANGED <<title, keyword>>
    /\ UNCHANGED <<ebVars, rdVars, gtVars, dateVars, mainVars>>

NextScore == Score

vars == <<title, keyword, score, ebVars, dateVars, rdVars, gtVars, mainVars>>

SpecScore == InitScore /\ [][NextScore]_vars

----------------------------------------------------------------------------
(* One call of one adapter *)

InitAdapter ==
    /\ ScoreIdle
    /\ MainIdle
    /\ keyword \in AdapterKeywords
    /\ DatesSet
    /\ \/ EbEntered /\ RdIdle /\ GtIdle
       \/ EbIdle /\ RdEntered /\ GtIdle
       \/ EbIdle /\ RdIdle /\ GtEntered

NextAdapter ==
    \/ EbRequest /\ UNCHANGED <<scoreVars, keyword, dateVars, rdVars, gtVars, mainVars>>
    \/ EbSelect(EbCardLists)
          /\ UNCHANGED <<scoreVars, keyword, dateVars, rdVars, gtVars, mainVars>>
    \/ EbPageError /\ UNCHANGED <<scoreVars, keyword, dateVars, rdVars, gtVars, mainVars>>
    \/ EbLinks(EbLinkLists)
          /\ UNCHANGED <<scoreVars, keyword, dateVars, rdVars, gtVars, mainVars>>
    \/ EbNoEvents /\ UNCHANGED <<scoreVars, keyword, dateVars, rdVars, gtVars, mainVars>>
    \/ FetchReddit(RedditEnvs(start_ts, end_ts))
          /\ UNCHANGED <<scoreVars, keyword, dateVars, ebVars, gtVars, mainVars>>
    \/ FetchTrends(TrendsEnvs)
          /\ UNCHANGED <<scoreVars, keyword, dateVars, ebVars, rdVars, mainVars>>

SpecAdapter == InitAdapter /\ [][NextAdapter]_vars

----------------------------------------------------------------------------
(* main *)

\* datetime's proleptic Gregorian calendar
IsLeap(y) == y % 4 = 0 /\ (y % 100 # 0 \/ y % 400 = 0)

DaysInMonth(y, m) ==
    IF m = 2 THEN (IF IsLeap(y) THEN 29 ELSE 28)
    ELSE IF m \in {4, 6, 9, 11} THEN 30 ELSE 31

DaysBeforeYear(y) ==
    (y - 1) * 365 + (y - 1) \div 4 - (y - 1) \div 100 + (y - 1) \div 400

\* the days of the year y before its month m
DaysBeforeMonth(y, m) ==
    <<0, 31, 59, 90, 120, 151, 181, 212, 243, 273, 304, 334>>[m]
    + (IF m > 2 /\ IsLeap(y) THEN 1 ELSE 0)

\* date.toordinal(): 0001-01-01 is day 1
Ordinal(y, m, d) == DaysBeforeYear(y) + DaysBeforeMonth(y, m) + d

\* the ordinal of 1970-01-01, and of datetime.max's day 9999-12-31
EpochOrdinal == 719163
MaxOrdinal == 3652059

\* A datetime at midnight is held as its day number, counted from 1970-01-01.

IsDigit(c) == \E n \in 1..Len(Digits) : Digits[n] = c

DigitValue(c) == (CHOOSE n \in 1..Len(Digits) : Digits[n] = c) - 1

\* int() of a string of digits
RECURSIVE DigitsValue(_)
DigitsValue(q) ==
    IF q = <<>> THEN 0
    ELSE 10 * DigitsValue(SubSeq(q, 1, Len(q) - 1)) + DigitValue(q[Len(q)])

\* datetime.fromisoformat on the date-only form YYYY-MM-DD: ok = FALSE where
\* it raises ValueError (the shape, the month, the day of the month, year 0)
ParseIso(q) ==
    IF /\ Len(q) = 10
       /\ q[5] = "-"
       /\ q[8] = "-"
       /\ \A n \in {1, 2, 3, 4, 6, 7, 9, 10} : IsDigit(q[n])
    THEN LET y == DigitsValue(SubSeq(q, 1, 4))
             m == DigitsValue(SubSeq(q, 6, 7))
             d == DigitsValue(SubSeq(q, 9, 10))
         IN  IF y >= 1 /\ m \in 1..12 /\ d >= 1 /\ d <= DaysInMonth(y, m)
             THEN [ok |-> TRUE, day |-> Ordinal(y, m, d) - EpochOrdinal]
             ELSE [ok |-> FALSE, day |-> 0]
    ELSE [ok |-> FALSE, day |-> 0]

\* the year of an ordinal, by 400-, 100-, 4- and 1-year cycles
YearOfOrdinal(o) ==
    LET n0 == o - 1
        n400 == n0 \div 146097
        r400 == n0 % 146097
        n100 == r400 \div 36524
        r100 == r400 % 36524
        n4 == r100 \div 1461
        r4 == r100 % 1461
        n1 == r4 \div 365
        y == n400 * 400 + n100 * 100 + n4 * 4 + n1 + 1
    IN  IF n1 = 4 \/ n100 = 4 THEN y - 1 ELSE y

\* str(n) padded with zeros to the width w
RECURSIVE ZeroPad(_, _)
ZeroPad(q, w) == IF Len(q) >= w THEN q ELSE ZeroPad(<<"0">> \o q, w)

\* date.fromordinal: the <<year, month, day>> of an ordinal
DateOfOrdinal(o) ==
    CHOOSE ymd \in {<<y, m, o - DaysBeforeYear(y) - DaysBeforeMonth(y, m)>> :
                       y \in {YearOfOrdinal(o)}, m \in 1..12} :
        ymd[3] \in 1..DaysInMonth(ymd[1], ymd[2])

\* '%Y-%m-%d' of <<year, month, day>>
FormatYMD(ymd) ==
    ZeroPad(Decimal(ymd[1]), 4) \o <<"-">> \o ZeroPad(Decimal(ymd[2]), 2)
    \o <<"-">> \o ZeroPad(Decimal(ymd[3]), 2)

\* strftime('%Y-%m-%d') of the datetime with day number `day`
FormatDate(day) ==
    CHOOSE s \in {FormatYMD(ymd) : ymd \in {DateOfOrdinal(day + EpochOrdinal)}} : TRUE

\* str.split(sep) for a one-character sep: every piece, the empty ones too
RECURSIVE SplitOnFrom(_, _, _, _)
SplitOnFrom(q, sep, i, cur) ==
    IF i > Len(q) THEN <<cur>>
    ELSE IF q[i] = sep
         THEN <<cur>> \o SplitOnFrom(q, sep, i + 1, <<>>)
         ELSE SplitOnFrom(q, sep, i + 1, Append(cur, q[i]))

SplitOn(q, sep) == SplitOnFrom(q, sep, 1, <<>>)

Date_2024_02_28 == <<"2","0","2","4","-","0","2","-","2","8">>
Date_2024_02_29 == <<"2","0","2","4","-","0","2","-","2","9">>
Date_2024_03_01 == <<"2","0","2","4","-","0","3","-","0","1">>
Date_2023_12_31 == <<"2","0","2","3","-","1","2","-","3","1">>
Date_9999_12_31 == <<"9","9","9","9","-","1","2","-","3","1">>

Date_2023_02_29 == <<"2","0","2","3","-","0","2","-","2","9">>
Date_2024_13_01 == <<"2","0","2","4","-","1","3","-","0","1">>
Date_Slashes == <<"2","0","2","4","/","0","2","/","2","8">>

PairArg(a, b) == a \o <<",">> \o b

\* the dates of the input set that are well formed, and the texts that are not
WellFormedDates ==
    {Date_2024_02_28, Date_2024_02_29, Date_2024_03_01, Date_2023_12_31, Date_9999_12_31}

MalformedDates == {Date_2023_02_29, Date_2024_13_01, Date_Slashes, <<>>}

SingleArgs == {Date_2024_02_28, Date_2024_02_29, Date_2023_12_31, Date_9999_12_31}

PairArgs == {<<Date_2024_02_29, Date_2024_03_01>>}

MalformedArgs ==
    MalformedDates
    \cup {PairArg(Date_2024_02_28, <<>>), PairArg(Date_2023_02_29, Date_2024_02_28),
          PairArg(Date_2024_02_28, Date_2024_13_01)}

\* "--date": single dates, pairs, and malformed values
DateArgs ==
    SingleArgs \cup {PairArg(r[1], r[2]) : r \in PairArgs} \cup MalformedArgs

MainKeywords == {KeywordAB}

MaxMainItems == 1

\* the cards, submissions and series of a whole run: one item that passes the
\* filters and one that does not
MainCardLists == SeqsUpTo({Card(<<"a"," ","b">>), BadCard}, MaxMainItems)

MainRedditEnvs(s, e) ==
    { [client_id |-> FALSE, client_secret |-> FALSE, praw |-> TRUE, api |-> ApiNotCalled],
      [client_id |-> TRUE, client_secret |-> TRUE, praw |-> TRUE,
       api |-> [kind |-> "search_error", submissions |-> <<>>]] }
    \cup
    { [client_id |-> TRUE, client_secret |-> TRUE, praw |-> TRUE,
       api |-> [kind |-> "ok", submissions |-> subs]] :
        subs \in SeqsUpTo({[title |-> <<"a"," ","b">>, created_utc |-> c] :
                              c \in {s, e + 1}}, MaxMainItems) }

MainTrendsEnvs ==
    { [TrendReq |-> FALSE, query |-> QueryNotCalled],
      [TrendReq |-> TRUE, query |-> [kind |-> "error", series |-> <<>>]] }
    \cup
    { [TrendReq |-> TRUE, query |-> [kind |-> "ok", series |-> ser]] :
        ser \in SeqsUpTo({0, 100}, MaxMainItems) }

Init ==
    /\ ScoreIdle
    /\ EbIdle
    /\ RdIdle
    /\ GtIdle
    /\ DatesUnset
    /\ keyword \in MainKeywords
    /\ pc = "parse_date"
    /\ date_arg \in DateArgs
    /\ calls = <<>>
    /\ eb_count = PyNone
    /\ eb_data = PyNone
    /\ reddit_count = PyNone
    /\ reddit_data = PyNone
    /\ gt_data = PyNone
    /\ out = PyNone
    /\ files = <<>>

\* as MainParseDate, but a single date gives end = start
MainParseDate_sameday ==
    /\ pc = "parse_date"
    /\ LET first == ParseIso(SplitOn(date_arg, ",")[1])
       IN  IF first.ok
           THEN /\ start_date' = first.day
                /\ end_date' = first.day
                /\ pc' = "eventbrite"
           ELSE /\ UNCHANGED <<start_date, end_date>>
                /\ pc' = "aborted"
    /\ UNCHANGED <<start_ts, end_ts>>
    /\ UNCHANGED <<date_arg, calls, eb_count, eb_data, reddit_count, reddit_data,
                   gt_data, out, files>>
    /\ UNCHANGED <<scoreVars, keyword, ebVars, rdVars, gtVars>>

\* "parse date input": with a comma, the first two pieces of split(",") are
\* parsed; without, the whole text is parsed and a day is added.
\* datetime.fromisoformat raises ValueError on a malformed text, and the
\* addition raises OverflowError past 9999-12-31, both outside any try,
\* which ends main
MainParseDate ==
    /\ pc = "parse_date"
    /\ IF In(<<",">>, date_arg)
       THEN LET first == ParseIso(SplitOn(date_arg, ",")[1])
                second == ParseIso(SplitOn(date_arg, ",")[2])
            IN  IF first.ok /\ second.ok
                THEN /\ start_date' = first.day
                     /\ end_date' = second.day
                     /\ pc' = "eventbrite"
                ELSE /\ UNCHANGED <<start_date, end_date>>
                     /\ pc' = "aborted"
       ELSE LET only == ParseIso(date_arg)
            IN  IF only.ok /\ only.day + 1 + EpochOrdinal <= MaxOrdinal
                THEN /\ start_date' = only.day
                     /\ end_date' = only.day + 1
                     /\ pc' = "eventbrite"
                ELSE /\ UNCHANGED <<start_date, end_date>>
                     /\ pc' = "aborted"
    /\ UNCHANGED <<start_ts, end_ts>>
    /\ UNCHANGED <<date_arg, calls, eb_count, eb_data, reddit_count, reddit_data,
                   gt_data, out, files>>
    /\ UNCHANGED <<scoreVars, keyword, ebVars, rdVars, gtVars>>

\* "eb_data = fetch_eventbrite_count(...)": the call
MainCallEventbrite ==
    /\ pc = "eventbrite"
    /\ pc' = "eventbrite_call"
    /\ calls' = Append(calls, "eventbrite")
    /\ eb_pc' = "request"
    /\ eb_i' = 1
    /\ UNCHANGED <<eb_j, eb_log, eb_ret>>
    /\ UNCHANGED <<date_arg, eb_count, eb_data, reddit_count, reddit_data,
                   gt_data, out, files>>
    /\ UNCHANGED <<scoreVars, keyword, dateVars, rdVars, gtVars>>

\* as MainEventbriteReturn, but the Eventbrite result is saved to the output
\* file as soon as it is there
MainEventbriteReturn_checkpoint ==
    /\ pc = "eventbrite_call"
    /\ eb_pc = "done"
    /\ eb_count' = PyInt(eb_ret.count)
    /\ eb_data' = eb_ret
    /\ files' = Append(files, eb_ret)
    /\ pc' = "reddit"
    /\ UNCHANGED <<date_arg, calls, reddit_count, reddit_data, gt_data, out>>
    /\ UNCHANGED <<scoreVars, keyword, dateVars, ebVars, rdVars, gtVars>>

\* the return of fetch_eventbrite_count and the isinstance branches
MainEventbriteReturn ==
    /\ pc = "eventbrite_call"
    /\ eb_pc = "done"
    /\ IF IsDict(eb_ret)
       THEN /\ eb_count' = PyInt(eb_ret.count)
            /\ eb_data' = eb_ret
       ELSE /\ eb_count' = eb_ret
            /\ eb_data' = [type |-> "dict", count |-> eb_ret, events |-> <<>>,
                           source |-> "eventbrite_scrape"]
    /\ pc' = "reddit"
    /\ UNCHANGED <<date_arg, calls, reddit_count, reddit_data, gt_data, out, files>>
    /\ UNCHANGED <<scoreVars, keyword, dateVars, ebVars, rdVars, gtVars>>

\* as MainEventbriteExcept, but with no handler: the exception ends main
MainEventbriteExcept_propagates ==
    /\ pc = "eventbrite_call"
    /\ EbEntered
    /\ eb_pc' = "raised"
    /\ pc' = "aborted"
    /\ UNCHANGED <<eb_i, eb_j, eb_log, eb_ret>>
    /\ UNCHANGED <<date_arg, calls, eb_count, eb_data, reddit_count, reddit_data,
                   gt_data, out, files>>
    /\ UNCHANGED <<scoreVars, keyword, dateVars, rdVars, gtVars>>

\* "except Exception as e" around the Eventbrite call: an exception raised in
\* the callee before its loop, where no try protects it
MainEventbriteExcept ==
    /\ pc = "eventbrite_call"
    /\ EbEntered
    /\ eb_pc' = "raised"
    /\ eb_count' = PyNone
    /\ eb_data' = [type |-> "dict", count |-> 0, events |-> <<>>, error |-> "exception"]
    /\ pc' = "reddit"
    /\ UNCHANGED <<eb_i, eb_j, eb_log, eb_ret>>
    /\ UNCHANGED <<date_arg, calls, reddit_count, reddit_data, gt_data, out, files>>
    /\ UNCHANGED <<scoreVars, keyword, dateVars, rdVars, gtVars>>

\* "start_ts = ...; end_ts = ...; reddit_data = fetch_reddit_mentions(...)"
MainCallReddit ==
    /\ pc = "reddit"
    /\ pc' = "reddit_call"
    /\ start_ts' = Timestamp(start_date)
    /\ end_ts' = Timestamp(end_date)
    /\ calls' = Append(calls, "reddit")
    /\ rd_pc' = "start"
    /\ UNCHANGED <<rd_in, rd_ret, start_date, end_date>>
    /\ UNCHANGED <<date_arg, eb_count, eb_data, reddit_count, reddit_data,
                   gt_data, out, files>>
    /\ UNCHANGED <<scoreVars, keyword, ebVars, gtVars>>

RedditErrorData ==
    [type |-> "dict", count |-> 0, posts |-> <<>>, error |-> "exception"]

\* the return of fetch_reddit_mentions and the isinstance branches; a dict
\* without 'in_date_range' raises KeyError in the log line, inside the try
MainRedditReturn ==
    /\ pc = "reddit_call"
    /\ rd_pc = "done"
    /\ IF IsDict(rd_ret)
       THEN IF "in_date_range" \in DOMAIN rd_ret
            THEN /\ reddit_data' = rd_ret
                 /\ reddit_count' = PyInt(rd_ret.count)
            ELSE /\ reddit_data' = RedditErrorData
                 /\ reddit_count' = PyInt(0)
       ELSE /\ reddit_data' = rd_ret
            /\ reddit_count' = rd_ret
    /\ pc' = "trends"
    /\ UNCHANGED <<date_arg, calls, eb_count, eb_data, gt_data, out, files>>
    /\ UNCHANGED <<scoreVars, keyword, dateVars, ebVars, rdVars, gtVars>>

\* as MainRedditExcept, but substituting None as the Eventbrite handler does
MainRedditExcept_null ==
    /\ pc = "reddit_call"
    /\ rd_pc = "start"
    /\ rd_pc' = "raised"
    /\ reddit_data' = RedditErrorData
    /\ reddit_count' = PyNone
    /\ pc' = "trends"
    /\ UNCHANGED <<rd_in, rd_ret>>
    /\ UNCHANGED <<date_arg, calls, eb_count, eb_data, gt_data, out, files>>
    /\ UNCHANGED <<scoreVars, keyword, dateVars, ebVars, gtVars>>

\* "except Exception as e" around the Reddit call: an exception raised in the
\* callee before its try block
MainRedditExcept ==
    /\ pc = "reddit_call"
    /\ rd_pc = "start"
    /\ rd_pc' = "raised"
    /\ reddit_data' = RedditErrorData
    /\ reddit_count' = PyInt(0)
    /\ pc' = "trends"
    /\ UNCHANGED <<rd_in, rd_ret>>
    /\ UNCHANGED <<date_arg, calls, eb_count, eb_data, gt_data, out, files>>
    /\ UNCHANGED <<scoreVars, keyword, dateVars, ebVars, gtVars>>

\* "gt_raw = fetch_google_trends_score(args.keyword, start, end)": the call
MainCallTrends ==
    /\ pc = "trends"
    /\ pc' = "trends_call"
    /\ calls' = Append(calls, "google_trends")
    /\ gt_pc' = "start"
    /\ UNCHANGED <<gt_in, gt_ret>>
    /\ UNCHANGED <<date_arg, eb_count, eb_data, reddit_count, reddit_data,
                   gt_data, out, files>>
    /\ UNCHANGED <<scoreVars, keyword, dateVars, ebVars, rdVars>>

\* the return of fetch_google_trends_score and the branches on gt_raw
MainTrendsReturn ==
    /\ pc = "trends_call"
    /\ gt_pc = "done"
    /\ gt_data' =
          IF IsDict(gt_ret) THEN gt_ret
          ELSE IF gt_ret # PyNone
               THEN [type |-> "dict", max_score |-> gt_ret, avg_score |-> gt_ret,
                     trend_direction |-> "stable", data_type |-> "simple_score"]
               ELSE PyNone
    /\ pc' = "build"
    /\ UNCHANGED <<date_arg, calls, eb_count, eb_data, reddit_count, reddit_data,
                   out, files>>
    /\ UNCHANGED <<scoreVars, keyword, dateVars, ebVars, rdVars, gtVars>>

\* "except Exception as e" around the Trends call: an exception raised in the
\* callee before its try block
MainTrendsExcept ==
    /\ pc = "trends_call"
    /\ gt_pc = "start"
    /\ gt_pc' = "raised"
    /\ gt_data' = [type |-> "dict", error |-> "exception", max_score |-> PyNone]
    /\ pc' = "build"
    /\ UNCHANGED <<gt_in, gt_ret>>
    /\ UNCHANGED <<date_arg, calls, eb_count, eb_data, reddit_count, reddit_data,
                   out, files>>
    /\ UNCHANGED <<scoreVars, keyword, dateVars, ebVars, rdVars>>

\* dict.get("max_score")
GetMaxScore(d) == IF "max_score" \in DOMAIN d THEN d.max_score ELSE PyNone

\* "[source for source, result in [...] if result]"
SourcesSuccessful(ebc, rdc, gtd) ==
    (IF ebc # PyNone THEN <<"eventbrite">> ELSE <<>>)
    \o (IF rdc # PyNone THEN <<"reddit">> ELSE <<>>)
    \o (IF gtd # PyNone THEN <<"google_trends">> ELSE <<>>)

\* "out = {...}"
MainBuild ==
    /\ pc = "build"
    /\ out' =
          [type |-> "dict",
           keyword |-> keyword,
           summary |->
              [eventbrite_events |-> eb_count,
               reddit_mentions |-> reddit_count,
               google_trends_score |->
                  IF IsDict(gt_data) THEN GetMaxScore(gt_data) ELSE gt_data],
           detailed_data |->
              [eventbrite |-> eb_data, reddit |-> reddit_data, google_trends |-> gt_data],
           date |-> FormatDate(start_date),
           search_metadata |->
              [date_range |->
                  FormatDate(start_date) \o <<" ","t","o"," ">> \o FormatDate(end_date),
               sources_attempted |-> <<"eventbrite", "reddit", "google_trends">>,
               sources_successful |-> SourcesSuccessful(eb_count, reddit_count, gt_data)]]
    /\ pc' = "write"
    /\ UNCHANGED <<date_arg, calls, eb_count, eb_data, reddit_count, reddit_data,
                   gt_data, files>>
    /\ UNCHANGED <<scoreVars, keyword, dateVars, ebVars, rdVars, gtVars>>

\* "with open(output_path, "w") as f: json.dump(out, f)"
MainWrite ==
    /\ pc = "write"
    /\ files' = Append(files, out)
    /\ pc' = "done"
    /\ UNCHANGED <<date_arg, calls, eb_count, eb_data, reddit_count, reddit_data,
                   gt_data, out>>
    /\ UNCHANGED <<scoreVars, keyword, dateVars, ebVars, rdVars, gtVars>>

Running == pc \notin {"idle", "done", "aborted", "interrupted"}

\* the run is interrupted (KeyboardInterrupt, a kill): no handler, main ends
Interrupt ==
    /\ Running
    /\ pc' = "interrupted"
    /\ UNCHANGED <<date_arg, calls, eb_count, eb_data, reddit_count, reddit_data,
                   gt_data, out, files>>
    /\ UNCHANGED <<scoreVars, keyword, dateVars, ebVars, rdVars, gtVars>>

\* the steps of the adapters while main waits for them
AdapterStep ==
    \/ /\ pc = "eventbrite_call"
       /\ \/ EbRequest
          \/ EbSelect(MainCardLists)
          \/ EbPageError
          \/ EbLinks(MainCardLists)
          \/ EbNoEvents
       /\ UNCHANGED <<scoreVars, keyword, dateVars, rdVars, gtVars, mainVars>>
    \/ /\ pc = "reddit_call"
       /\ FetchReddit(MainRedditEnvs(start_ts, end_ts))
       /\ UNCHANGED <<scoreVars, keyword, dateVars, ebVars, gtVars, mainVars>>
    \/ /\ pc = "trends_call"
       /\ FetchTrends(MainTrendsEnvs)
       /\ UNCHANGED <<scoreVars, keyword, dateVars, ebVars, rdVars, mainVars>>

\* every step of a run but the interruption
Step ==
    \/ MainParseDate
    \/ MainCallEventbrite
    \/ MainEventbriteReturn
    \/ MainEventbriteExcept
    \/ MainCallReddit
    \/ MainRedditReturn
    \/ MainRedditExcept
    \/ MainCallTrends
    \/ MainTrendsReturn
    \/ MainTrendsExcept
    \/ MainBuild
    \/ MainWrite
    \/ AdapterStep

Next == Step \/ Interrupt

Spec == Init /\ [][Next]_vars

----------------------------------------------------------------------------
(* Properties *)

AllSources == <<"eventbrite", "reddit", "google_trends">>

IsPrefix(p, q) == Len(p) <= Len(q) /\ SubSeq(q, 1, Len(p)) = p

InSeq(x, q) == \E n \in 1..Len(q) : q[n] = x

\* C1: whatever the three source calls do (a result, a degraded result, an
\* exception), main calls Eventbrite, then Reddit, then Google Trends, each
\* once and in that order, and then writes the report: the calls made are
\* always a prefix of the three in order, no run past the date parsing is
\* ever stuck or aborted, and a finished run has made all three calls and
\* written the report.
C1_AllSourcesThenReport ==
    /\ IsPrefix(calls, AllSources)
    /\ (pc = "aborted" => calls = <<>>)
    /\ (Running => ENABLED Step)
    /\ (pc \in {"build", "write", "done"} => calls = AllSources)
    /\ (pc = "done" => Len(files) = 1 /\ files[1] = out)

\* all three source calls raised, and the report was written all the same
C1_Witness ==
    /\ pc = "done"
    /\ eb_pc = "raised"
    /\ rd_pc = "raised"
    /\ gt_pc = "raised"
    /\ calls = AllSources
    /\ Len(files) = 1

\* C2: in every report, a source is listed in sources_successful exactly when
\* its value in summary is not null.
C2_SuccessfulIffNotNull ==
    IsDict(out) =>
        LET listed == out.search_metadata.sources_successful
        IN  /\ InSeq("eventbrite", listed) <=> out.summary.eventbrite_events # PyNone
            /\ InSeq("reddit", listed) <=> out.summary.reddit_mentions # PyNone
            /\ InSeq("google_trends", listed) <=> out.summary.google_trends_score # PyNone

RedditSearched == rd_pc = "done" /\ RedditApiUsable(rd_in) /\ rd_in.api.kind = "ok"

\* C3: with credentials and a successful search, when no fetched submission
\* is created within [start_ts, end_ts] the result has count 0 and no posts;
\* and no result ever holds a post created outside the range.
C3_OffRangeNeverReturned ==
    rd_pc = "done" =>
        /\ \A n \in 1..Len(rd_ret.posts) :
              /\ start_ts <= rd_ret.posts[n].created_utc
              /\ rd_ret.posts[n].created_utc <= end_ts
        /\ (RedditSearched
            /\ (\A n \in 1..Len(rd_in.api.submissions) :
                   ~InDateRange(rd_in.api.submissions[n], start_ts, end_ts))
            => rd_ret.count = 0 /\ rd_ret.posts = <<>>)

\* two off-range submissions were fetched, one of them scoring 90 or more
C3_Witness ==
    /\ RedditSearched
    /\ Len(rd_in.api.submissions) = 2
    /\ \A n \in 1..2 : ~InDateRange(rd_in.api.submissions[n], start_ts, end_ts)
    /\ \E n \in 1..2 :
          calculate_relevance_score(rd_in.api.submissions[n].title, keyword)
             >= relevance_threshold
    /\ rd_ret.count = 0

CountMatchesItems(count, items) ==
    /\ count = Len(items)
    /\ \A n \in 1..Len(items) : items[n].relevance_score >= relevance_threshold

\* C4: every result fetch_eventbrite_scrape or fetch_reddit_mentions returns
\* has count equal to the number of returned items, each scoring 90 or more.
C4_CountIsHighRelevanceItems ==
    /\ (eb_pc = "done" => CountMatchesItems(eb_ret.count, eb_ret.events))
    /\ (rd_pc = "done" => CountMatchesItems(rd_ret.count, rd_ret.posts))

\* a selector matched two cards and the filter kept one of them
C4_Witness ==
    /\ eb_pc = "done"
    /\ "selector_used" \in DOMAIN eb_ret
    /\ eb_ret.total_events_found = 2
    /\ eb_ret.count = 1

\* C5: calculate_relevance_score returns an integer between 0 and 100.
C5_ScoreInRange ==
    score # PyNone => score.v \in 0..MaxScore

\* the points add up to more than 100 and the call returned
C5_Witness ==
    /\ score # PyNone
    /\ RawScore(title, keyword) > MaxScore

\* C6: for the empty keyword the score is the event-term bonus alone: 20 when
\* the title holds an event term, 0 otherwise.
C6_EmptyKeywordOnlyEventBonus ==
    (score # PyNone /\ keyword = <<>>) => score.v = EventScore(Lower(title))

RedditApiFailed == rd_pc = "done" /\ RedditApiUsable(rd_in) /\ rd_in.api.kind # "ok"

\* C7: with credentials, when the platform call raises, the result has count
\* 0, no posts and an error field.
C7_ApiErrorCarriesErrorField ==
    RedditApiFailed =>
        /\ rd_ret.count = 0
        /\ rd_ret.posts = <<>>
        /\ "error" \in DOMAIN rd_ret

TrendsQueryFailed == gt_pc = "done" /\ gt_in.TrendReq /\ gt_in.query.kind = "error"

\* C8: when the trend query raises, the adapter returns a result with an error
\* field, and the report's detailed_data.google_trends carries it.
C8_QueryErrorCarriesErrorField ==
    TrendsQueryFailed =>
        /\ "error" \in DOMAIN gt_ret
        /\ (pc = "done" => "error" \in DOMAIN out.detailed_data.google_trends)

FailedOutcomes == {"404", "exception", "nothing"}

\* C9: the URLs are requested in order; a 404 or an exception moves on to the
\* next URL; the first URL with a selector match or an event link ends the
\* call with its result, and the error result is returned exactly when every
\* URL was tried and failed.
C9_UrlsInOrderUntilFirstResult ==
    /\ eb_pc \in {"idle", "request", "select", "links", "exhausted", "done"}
    /\ (eb_pc \in {"request", "select", "links", "exhausted"} => ENABLED NextAdapter)
    /\ Len(eb_log) <= NumUrls
    /\ \A n \in 1..Len(eb_log) :
          /\ eb_log[n].url = n
          /\ (n < Len(eb_log) => eb_log[n].outcome \in FailedOutcomes)
    /\ (eb_pc = "done" =>
          /\ IsDict(eb_ret)
          /\ eb_log # <<>>
          /\ eb_log[Len(eb_log)].outcome # "pending"
          /\ ("error" \in DOMAIN eb_ret <=>
                 /\ Len(eb_log) = NumUrls
                 /\ \A n \in 1..NumUrls : eb_log[n].outcome \in FailedOutcomes)
          /\ ("error" \in DOMAIN eb_ret => eb_ret.count = 0 /\ eb_ret.events = <<>>)
          /\ (eb_log[Len(eb_log)].outcome = "selector" =>
                 "selector_used" \in DOMAIN eb_ret /\ eb_ret.selector_used = eb_j)
          /\ (eb_log[Len(eb_log)].outcome = "links" =>
                 eb_ret.source = "eventbrite_links" /\ eb_j = NumSelectors))

\* the first URL gave a 404 and the second one event links
C9_Witness ==
    /\ eb_pc = "done"
    /\ Len(eb_log) = 2
    /\ eb_log[1].outcome = "404"
    /\ eb_log[2].outcome = "links"

\* C10: the output file is written at most once, only after all three sources
\* have been attempted; an interrupted run has written nothing.
C10_SingleWriteAfterAllSources ==
    /\ Len(files) <= 1
    /\ (files # <<>> =>
          /\ pc = "done"
          /\ calls = AllSources
          /\ eb_pc \in {"done", "raised"}
          /\ rd_pc \in {"done", "raised"}
          /\ gt_pc \in {"done", "raised"}
          /\ files[1] = out)
    /\ (pc = "interrupted" => files = <<>>)

\* a run interrupted after the three sources were attempted, before the write
C10_Witness ==
    /\ pc = "interrupted"
    /\ calls = AllSources
    /\ gt_pc = "done"
    /\ IsDict(out)
    /\ files = <<>>

\* the date range is set: main is past the date parsing
Parsed ==
    \/ pc \notin {"idle", "parse_date", "aborted", "interrupted"}
    \/ pc = "interrupted" /\ calls # <<>>

NothingFetched ==
    /\ calls = <<>>
    /\ files = <<>>
    /\ eb_pc = "idle"
    /\ rd_pc = "idle"
    /\ gt_pc = "idle"

StoppedAtDate == pc \in {"parse_date", "aborted", "interrupted"} /\ NothingFetched

SingleGivesNextDay ==
    /\ pc # "aborted"
    /\ (Parsed => FormatDate(start_date) = date_arg /\ end_date = start_date + 1)

\* C11 as stated: a malformed --date (either part of a pair, or the single
\* date) ends main before any source is fetched and with no file written;
\* every well-formed single date D gives start = D and end = D + 1 day, and a
\* well-formed pair gives the two bounds.
C11_EveryWellFormedDateGivesRange ==
    /\ (pc = "aborted" => NothingFetched)
    /\ (date_arg \in MalformedArgs => StoppedAtDate)
    /\ (date_arg \in SingleArgs => SingleGivesNextDay)
    /\ \A r \in PairArgs :
          date_arg = PairArg(r[1], r[2]) =>
             /\ pc # "aborted"
             /\ (Parsed => FormatDate(start_date) = r[1] /\ FormatDate(end_date) = r[2])

\* C11, amended: as stated, but for the single date 9999-12-31, the last day
\* a datetime holds: adding a day raises OverflowError and main ends there,
\* before any source is fetched and with no file written, as for a malformed
\* date.
C11_MalformedDateIsFatal ==
    /\ (pc = "aborted" => NothingFetched)
    /\ (date_arg \in MalformedArgs => StoppedAtDate)
    /\ (date_arg = Date_9999_12_31 => StoppedAtDate)
    /\ (date_arg \in SingleArgs \ {Date_9999_12_31} => SingleGivesNextDay)
    /\ \A r \in PairArgs :
          date_arg = PairArg(r[1], r[2]) =>
             /\ pc # "aborted"
             /\ (Parsed => FormatDate(start_date) = r[1] /\ FormatDate(end_date) = r[2])

\* main ended at a pair whose second date is empty
C11_Witness ==
    /\ pc = "aborted"
    /\ date_arg = PairArg(Date_2024_02_28, <<>>)
    /\ NothingFetched

\* the number of whitespace-delimited tokens of the keyword, repetitions
\* counted, that occur in the lowercased title
MatchingTokens(t, kw) ==
    LET tokens == Split(Lower(kw))
    IN  Cardinality({n \in 1..Len(tokens) : In(tokens[n], Lower(t))})

HasFullKeyword(t, kw) == In(Lower(kw), Lower(t))

HasEventTerm(t) == \E k \in 1..Len(event_terms) : In(event_terms[k], Lower(t))

\* C12: for a non-empty keyword the score is min(100, 100 if the lowercased
\* keyword occurs in the lowercased title + 35 for each keyword token that
\* occurs in it + 20 if an event term occurs in it); so it is 100 whenever the
\* keyword occurs in the title, and without the full keyword it reaches 90
\* only with three matching tokens, or two and an event term.
C12_ScoreIsClampedSum ==
    (score # PyNone /\ keyword # <<>>) =>
        LET full == HasFullKeyword(title, keyword)
            c == MatchingTokens(title, keyword)
            ev == HasEventTerm(title)
        IN  /\ score.v = Min(100, (IF full THEN 100 ELSE 0) + 35 * c
                                  + (IF ev THEN 20 ELSE 0))
            /\ (full => score.v = 100)
            /\ (~full /\ score.v >= relevance_threshold => c >= 3 \/ (c >= 2 /\ ev))

\* the title lacks the full keyword and scores 90 with two tokens and an
\* event term
C12_Witness ==
    /\ score # PyNone
    /\ keyword # <<>>
    /\ ~HasFullKeyword(title, keyword)
    /\ MatchingTokens(title, keyword) = 2
    /\ HasEventTerm(title)
    /\ score.v = 90

\* C13: in every report reddit_mentions is not null and 'reddit' is listed
\* as successful, whatever the Reddit fetch did (a raised exception gives 0);
\* eventbrite_events is null, and 'eventbrite' is not listed, exactly when
\* the Eventbrite call raised; its all-URLs-failed result gives 0 and is
\* listed.
C13_RedditNeverNullEventbriteNullIffRaised ==
    IsDict(out) =>
        LET listed == out.search_metadata.sources_successful
        IN  /\ out.summary.reddit_mentions # PyNone
            /\ InSeq("reddit", listed)
            /\ (rd_pc = "raised" => out.summary.reddit_mentions = PyInt(0))
            /\ (out.summary.eventbrite_events = PyNone <=> eb_pc = "raised")
            /\ (~InSeq("eventbrite", listed) <=> eb_pc = "raised")
            /\ (eb_pc = "done" /\ "error" \in DOMAIN eb_ret =>
                    /\ out.summary.eventbrite_events = PyInt(0)
                    /\ InSeq("eventbrite", listed))

\* a report built after both the Eventbrite call and the Reddit call raised
C13_Witness ==
    /\ IsDict(out)
    /\ eb_pc = "raised"
    /\ rd_pc = "raised"
    /\ out.summary.eventbrite_events = PyNone
    /\ out.summary.reddit_mentions = PyInt(0)

\* the number of fetched submissions created within [start_ts, end_ts]
FetchedInRange ==
    Cardinality({n \in 1..Len(rd_in.api.submissions) :
                    InDateRange(rd_in.api.submissions[n], start_ts, end_ts)})

\* C14: after a successful search, when some fetched submission is in the
\* date range, total_posts_found equals posts_in_date_range, the number of
\* in-range submissions, and count is at most that; when none is in range,
\* total_posts_found is min(10, number of submissions fetched) and count is 0.
C14_TotalPostsFoundIsNotFetched ==
    RedditSearched =>
        IF FetchedInRange > 0
        THEN /\ "posts_in_date_range" \in DOMAIN rd_ret
             /\ rd_ret.total_posts_found = rd_ret.posts_in_date_range
             /\ rd_ret.posts_in_date_range = FetchedInRange
             /\ rd_ret.count <= rd_ret.posts_in_date_range
        ELSE /\ rd_ret.total_posts_found = Min(10, Len(rd_in.api.submissions))
             /\ rd_ret.count = 0

\* more than ten submissions were fetched, none of them in the range
C14_Witness ==
    /\ RedditSearched
    /\ Len(rd_in.api.submissions) > SubmissionsShown
    /\ FetchedInRange = 0
    /\ rd_ret.total_posts_found = SubmissionsShown
    /\ rd_ret.count = 0

====
